---------------------------- MODULE Spec2Model ----------------------------
(***************************************************************************)
(* A model of tools/translate.py: the placeholder-preserving translation   *)
(* of an ARB document through an Ollama backend.                           *)
(*                                                                         *)
(* A text is a sequence of one-character strings, so that the regular      *)
(* expressions of the program are computed on characters, as re computes   *)
(* them.  A document (a Python dict, which keeps insertion order) is a     *)
(* sequence of [k, v] entries with distinct keys.  A key is [at, name]:    *)
(* the number of leading "@" characters and the rest of the key.           *)
(***************************************************************************)
EXTENDS Integers, Sequences, FiniteSets, TLC

\* None where a str is expected; like the empty str, it is falsy.
None == << >>

-----------------------------------------------------------------------------
(* Characters: the classes \w, \s and \d of re, and IGNORECASE.            *)

Digits == << "0", "1", "2", "3", "4", "5", "6", "7", "8", "9" >>

Uppers ==
    << "A", "B", "C", "D", "E", "F", "G", "H", "I", "J", "K", "L", "M",
       "N", "O", "P", "Q", "R", "S", "T", "U", "V", "W", "X", "Y", "Z" >>

Lowers ==
    << "a", "b", "c", "d", "e", "f", "g", "h", "i", "j", "k", "l", "m",
       "n", "o", "p", "q", "r", "s", "t", "u", "v", "w", "x", "y", "z" >>

Range(f) == { f[i] : i \in DOMAIN f }

\* The word characters in code point order: sorted() compares code points.
WordSeq == Digits \o Uppers \o << "_" >> \o Lowers

IsWord(c) == c \in Range(WordSeq)

IsSpace(c) == c \in { " ", "\t", "\n", "\r" }

IsDigit(c) == c \in Range(Digits)

Lower(c) ==
    IF c \in Range(Uppers)
    THEN Lowers[CHOOSE i \in 1..Len(Uppers) : Uppers[i] = c]
    ELSE c

Ord(c) == IF IsWord(c) THEN CHOOSE i \in 1..Len(WordSeq) : WordSeq[i] = c ELSE 0

\* a < b as Python compares two str.
StrLess(a, b) ==
    \E i \in 1..(Len(a) + 1) :
        /\ i <= Len(b)
        /\ \A k \in 1..(i - 1) : a[k] = b[k]
        /\ \/ i = Len(a) + 1
           \/ Ord(a[i]) < Ord(b[i])

\* sorted(names)
RECURSIVE Sorted(_)
Sorted(S) ==
    IF S = {} THEN << >>
    ELSE LET m == CHOOSE x \in S : \A y \in S \ {x} : StrLess(x, y)
         IN  << m >> \o Sorted(S \ {m})

-----------------------------------------------------------------------------
(* Pieces of the patterns.  Every pattern of the program starts with "{"   *)
(* or is anchored at the end, and \w+ and \s* are each followed by a       *)
(* character outside their class, so the greedy match is the only match.   *)

\* The position after the longest run of \w from position i.
WordEnd(s, i) ==
    CHOOSE k \in i..(Len(s) + 1) :
        /\ \A m \in i..(k - 1) : IsWord(s[m])
        /\ (k <= Len(s) => ~IsWord(s[k]))

\* The position after the longest run of \s from position i.
SpaceEnd(s, i) ==
    CHOOSE k \in i..(Len(s) + 1) :
        /\ \A m \in i..(k - 1) : IsSpace(s[m])
        /\ (k <= Len(s) => ~IsSpace(s[k]))

CharAt(s, i, c) == i >= 1 /\ i <= Len(s) /\ s[i] = c

\* The literal lit at position i of s; with ic, re.IGNORECASE.
LitAt(s, i, lit, ic) ==
    /\ i >= 1
    /\ i + Len(lit) - 1 <= Len(s)
    /\ \A k \in 1..Len(lit) :
           IF ic THEN Lower(s[i + k - 1]) = Lower(lit[k])
                 ELSE s[i + k - 1] = lit[k]

KwPlural == << "p", "l", "u", "r", "a", "l" >>
KwSelect == << "s", "e", "l", "e", "c", "t" >>
KwSelectordinal ==
    << "s", "e", "l", "e", "c", "t", "o", "r", "d", "i", "n", "a", "l" >>

IcuKeywords == { KwPlural, KwSelect, KwSelectordinal }

\* \{(\w+)\s*,\s*  at position i: the position after it, or 0.
IcuHead(s, i) ==
    IF ~CharAt(s, i, "{") THEN 0
    ELSE LET j == WordEnd(s, i + 1)
             k == SpaceEnd(s, j)
         IN  IF j > i + 1 /\ CharAt(s, k, ",") THEN SpaceEnd(s, k + 1) ELSE 0

\* ICU_VAR_RE matches at position i.
ICU_VAR_RE(s, i) ==
    LET m == IcuHead(s, i)
    IN  /\ m > 0
        /\ \E kw \in IcuKeywords :
               /\ LitAt(s, m, kw, TRUE)
               /\ CharAt(s, SpaceEnd(s, m + Len(kw)), ",")

\* SIMPLE_PLACEHOLDER_RE matches at position i.
SIMPLE_PLACEHOLDER_RE(s, i) ==
    /\ CharAt(s, i, "{")
    /\ WordEnd(s, i + 1) > i + 1
    /\ CharAt(s, WordEnd(s, i + 1), "}")

\* group(1) of either pattern matched at position i.
Group1(s, i) == SubSeq(s, i + 1, WordEnd(s, i + 1) - 1)

\* re.match(r"\{\w+\s*,\s*(?:plural|select|selectordinal)", s[pos:])
IcuStartAt(s, pos) ==
    LET m == IcuHead(s, pos)
    IN  m > 0 /\ \E kw \in IcuKeywords : LitAt(s, m, kw, TRUE)

L_zero == << "z", "e", "r", "o" >>
L_one == << "o", "n", "e" >>
L_two == << "t", "w", "o" >>
L_few == << "f", "e", "w" >>
L_many == << "m", "a", "n", "y" >>
L_other == << "o", "t", "h", "e", "r" >>

CaseLabels == { L_zero, L_one, L_two, L_few, L_many, L_other }

\* The length of s[:n] without its trailing \s characters.
RStripEnd(s, n) ==
    CHOOSE k \in 0..n :
        /\ \A m \in (k + 1)..n : IsSpace(s[m])
        /\ (k >= 1 => ~IsSpace(s[k]))

\* re.search(r"(?:=\d+|zero|one|two|few|many|other)\s*$", s[:pos-1])
AfterCaseLabel(s, pos) ==
    LET e == RStripEnd(s, pos - 1)
    IN  \/ \E lab \in CaseLabels : LitAt(s, e - Len(lab) + 1, lab, TRUE)
        \/ \E a \in 1..(e - 1) :
               /\ s[a] = "="
               /\ \A m \in (a + 1)..e : IsDigit(s[m])

-----------------------------------------------------------------------------
(* Token Extractor and Validator.                                          *)

\* The set names of extract_placeholder_names, before it is sorted.
PlaceholderNameSet(s) ==
    { Group1(s, i) : i \in { p \in 1..Len(s) : ICU_VAR_RE(s, p) } }
    \cup
    { Group1(s, i) :
        i \in { p \in 1..Len(s) :
                  /\ SIMPLE_PLACEHOLDER_RE(s, p)
                  /\ ~IcuStartAt(s, p)
                  /\ ~AfterCaseLabel(s, p) } }

extract_placeholder_names(s) == Sorted(PlaceholderNameSet(s))

has_icu_block(s) == \E i \in 1..Len(s) : ICU_VAR_RE(s, i)

\* re.search(r"\{" + re.escape(name) + r"\}", out): the pattern without
\* its ICU alternative.
TokenInBraces(name, out) ==
    \E i \in 1..Len(out) :
        /\ out[i] = "{"
        /\ LitAt(out, i + 1, name, FALSE)
        /\ CharAt(out, i + 1 + Len(name), "}")

\* re.search(r"\{" + re.escape(name) + r"(?:\}|\s*,)", out)
TokenIn(name, out) ==
    \E i \in 1..Len(out) :
        /\ out[i] = "{"
        /\ LitAt(out, i + 1, name, FALSE)
        /\ LET e == i + 1 + Len(name)
           IN  CharAt(out, e, "}") \/ CharAt(out, SpaceEnd(out, e), ",")

MissingPlaceholder(name) == << "Missing placeholder", name >>

IcuMissing == << "ICU plural/select block missing" >>

\* (ok, why) of validate_preserved_tokens(src, out)
validate_preserved_tokens(src, out) ==
    LET src_names == extract_placeholder_names(src)
        missing == { i \in 1..Len(src_names) : ~TokenIn(src_names[i], out) }
    IN  IF missing # {}
        THEN LET first == CHOOSE i \in missing : \A j \in missing : i <= j
             IN  << FALSE, MissingPlaceholder(src_names[first]) >>
        ELSE IF has_icu_block(src) /\ ~has_icu_block(out)
        THEN << FALSE, IcuMissing >>
        ELSE << TRUE, None >>

\* str.strip()
Strip(s) ==
    LET e == RStripEnd(s, Len(s))
        b == SpaceEnd(s, 1)
    IN  IF b > e THEN << >> ELSE SubSeq(s, b, e)

-----------------------------------------------------------------------------
(* Documents.                                                              *)

Key(name) == [at |-> 0, name |-> name]

\* f"@{key}"
MetaKey(k) == [at |-> k.at + 1, name |-> k.name]

\* "@@locale"
LocaleKey == [at |-> 2, name |-> "locale"]

\* A str value, a nested metadata object, a number.
Str(s) == [t |-> "str", s |-> s]

Obj(s) == [t |-> "obj", s |-> s]

Num(s) == [t |-> "num", s |-> s]

Entry(k, v) == [k |-> k, v |-> v]

\* key in d
Has(d, k) == \E i \in 1..Len(d) : d[i].k = k

\* d[key]
Get(d, k) == d[CHOOSE i \in 1..Len(d) : d[i].k = k].v

\* d[key] = v: a key of the dict keeps its place, a new key goes last.
Put(d, k, v) ==
    IF Has(d, k)
    THEN [i \in 1..Len(d) |-> IF d[i].k = k THEN Entry(k, v) ELSE d[i]]
    ELSE Append(d, Entry(k, v))

\* list(d)
Keys(d) == [i \in 1..Len(d) |-> d[i].k]

SKIP_KEYS == { Key("appTitle") }

Fr == << "f", "r" >>
De == << "d", "e" >>
Tr == << "t", "r" >>
En == << "e", "n" >>

ManualFr ==
    << "{", "d", "a", "y", "s", "}", " ", "j", "o", "u", "r", "s", " ",
       "{", "h", "o", "u", "r", "s", "}", "h", " ",
       "{", "m", "i", "n", "u", "t", "e", "s", "}", "m", " ",
       "{", "s", "e", "c", "o", "n", "d", "s", "}", "s" >>

ManualDe ==
    << "{", "d", "a", "y", "s", "}", " ", "T", "a", "g", "e", " ",
       "{", "h", "o", "u", "r", "s", "}", "h", " ",
       "{", "m", "i", "n", "u", "t", "e", "s", "}", "m", " ",
       "{", "s", "e", "c", "o", "n", "d", "s", "}", "s" >>

\* The entries of MANUAL_TRANSLATIONS for fr and de; the other fourteen
\* locales of the table are handled by the same code.
ManualLocales(k) ==
    IF k = Key("repeater_daysHoursMinsSecs") THEN { Fr, De } ELSE {}

\* k in MANUAL_TRANSLATIONS and target_locale in MANUAL_TRANSLATIONS[k]
HasManual(k, locale) == locale \in ManualLocales(k)

\* MANUAL_TRANSLATIONS[k][target_locale]
MANUAL_TRANSLATIONS(k, locale) == IF locale = Fr THEN ManualFr ELSE ManualDe

\* isinstance(v, str) and v == "": without the strip().
IsEmptyStr(v) == v.t = "str" /\ v.s = << >>

IsBlankStr(v) == v.t = "str" /\ Strip(v.s) = << >>

\* The test without "key in SKIP_KEYS".
is_entry_with_text(k, v) ==
    IF k = LocaleKey \/ k.at >= 1
    THEN FALSE
    ELSE v.t = "str" /\ Strip(v.s) # << >>

is_translatable_entry(k, v) ==
    IF k = LocaleKey \/ k.at >= 1 \/ k \in SKIP_KEYS
    THEN FALSE
    ELSE v.t = "str" /\ Strip(v.s) # << >>

\* The missing keys kept to the entries is_translatable_entry accepts.
find_missing_translatable_keys(source, target) ==
    LET v_blank(v) == v.t = "str" /\ Strip(v.s) = << >>
        miss(i) ==
            /\ is_translatable_entry(source[i].k, source[i].v)
            /\ \/ ~Has(target, source[i].k)
               \/ v_blank(Get(target, source[i].k))
    IN  Keys(SelectSeq([i \in 1..Len(source) |-> [k |-> source[i].k, m |-> miss(i)]],
                       LAMBDA e : e.m))

find_missing_keys(source, target) ==
    LET miss(i) ==
            /\ ~(source[i].k = LocaleKey \/ source[i].k.at >= 1)
            /\ \/ ~Has(target, source[i].k)
               \/ IsBlankStr(Get(target, source[i].k))
    IN  Keys(SelectSeq([i \in 1..Len(source) |-> [k |-> source[i].k, m |-> miss(i)]],
                       LAMBDA e : e.m))

-----------------------------------------------------------------------------
(* Backend Client.  A reply is what one HTTP request to the backend gives: *)
(* no answer (connection refused, timeout), a body that is not JSON, or a  *)
(* JSON object whose "response" is a str, is null or is absent.            *)

Reply(kind, response) == [kind |-> kind, response |-> response]

Raise(type, msg) == [exc |-> type, msg |-> msg, text |-> << >>]

Return(text) == [exc |-> "", msg |-> << >>, text |-> text]

\* ollama_generate(cfg, prompt), the backend answering r.
ollama_generate(r) ==
    CASE r.kind = "transport" -> Raise("URLError", << "URLError" >>)
      [] r.kind = "unparsable" -> Raise("JSONDecodeError", << "JSONDecodeError" >>)
      [] r.kind = "null" -> Raise("AttributeError", << "AttributeError" >>)
      [] r.kind = "absent" -> Return(Strip(<< >>))
      [] OTHER -> Return(Strip(r.response))

\* A handler for the transport error alone, "except urllib.error.URLError":
\* what the handlers would be if they named one exception type.
ExceptURLError(type) == type = "URLError"

\* except Exception: every exception above is one.
ExceptException(type) == TRUE

-----------------------------------------------------------------------------
(* State.                                                                  *)

VARIABLES
    args,              \* the command line: l10n_dir (all locales of a
                       \* directory, or --out/--to-locale), missing_only,
                       \* retries, concurrency, fallback_model, dry_run
    source_data,       \* the source document
    locales,           \* main: the locales to process, in order
    disk,              \* the target file of each locale: absent, unreadable,
                       \* or a document
    writes,            \* how many times each locale's file was written
    li,                \* main: the position in locales
    total_translated,  \* main
    exit_code,         \* main: -1 until it returns
    pcMain,            \* "main", "collect" (in translate_locale, waiting in
                       \* as_completed), "exit", "crashed"
    target_locale,     \* translate_locale
    out_data,
    manual_count,
    total,
    translated_ok,
    fallback_used,
    completed,
    failures,
    queue,             \* the executor's work queue: futures not started
    jobs,              \* the futures of translate_one, by submission order
    call,              \* a function called on its own: its name and input
    ret                \* and what it returned

\* What a run of main leaves as it is.
constVars == << args, source_data, locales, call, ret >>

mainVars == << li, total_translated, exit_code >>

runVars ==
    << target_locale, out_data, manual_count, total, translated_ok,
       fallback_used, completed, failures >>

vars ==
    << args, source_data, locales, disk, writes, li, total_translated,
       exit_code, pcMain, target_locale, out_data, manual_count, total,
       translated_ok, fallback_used, completed, failures, queue, jobs,
       call, ret >>

\* --backoff, in tenths of a second (default 0.6).
Backoff == 6

-----------------------------------------------------------------------------
(* Job Runner: translate_one.  A job is the call of translate_one for one  *)
(* key, with its locals (attempt, last_err), its place (pc: "queued",      *)
(* "primary" and "fallback" while a request is in flight, "sleep", "done", *)
(* "raised") and the future's result.  The other fields record what has    *)
(* happened to it: the requests sent to each backend and how many of them  *)
(* failed, the reason of the last failing attempt (lastFail) and of the    *)
(* last failing primary attempt (lastPrimaryFail), the sleeps, the return  *)
(* statements executed, and how often the collecting loop merged it.       *)

NewJob(k, text) ==
    [key |-> k, text |-> text, pc |-> "queued", attempt |-> 0,
     last_err |-> None,
     result |-> [text |-> << >>, err |-> None, used_fallback |-> FALSE],
     nPrimary |-> 0, nPrimaryFailed |-> 0, nFallback |-> 0,
     nFallbackFailed |-> 0, lastFail |-> None, lastPrimaryFail |-> None,
     slept |-> << >>, returns |-> 0, merged |-> 0]

\* return key, text, err, used_fallback
Returned(job, text, err, used_fallback) ==
    [job EXCEPT !.pc = "done",
                !.returns = @ + 1,
                !.result = [text |-> text, err |-> err,
                            used_fallback |-> used_fallback]]

\* An exception leaves translate_one: the future holds it.
Escaped(job) == [job EXCEPT !.pc = "raised"]

\* The loop ending with "raise RuntimeError(last_err)" in place of the
\* fallback and of "return key, text, last_err, False".
RaiseAfterLoop(job) == Escaped(job)

\* Lines 231-243 up to the fallback request: "if fallback_cfg".
AfterLoop(job) ==
    IF args.fallback_model
    THEN [job EXCEPT !.pc = "fallback", !.nFallback = @ + 1]
    ELSE Returned(job, job.text, job.last_err, FALSE)

\* for attempt in range(retries + 1): the first request, or none.
EnterLoop(job) ==
    IF args.retries + 1 > 0
    THEN [job EXCEPT !.pc = "primary", !.attempt = 0, !.nPrimary = @ + 1]
    ELSE AfterLoop(job)

\* The retry with time.sleep(backoff_s): the same wait before every retry.
RetryAfterFlatSleep(job) ==
    IF job.attempt < args.retries
    THEN [job EXCEPT !.pc = "sleep", !.slept = Append(@, Backoff)]
    ELSE AfterLoop(job)

\* if attempt < retries: time.sleep(backoff_s * (attempt + 1)); continue
RetryOrLeave(job) ==
    IF job.attempt < args.retries
    THEN [job EXCEPT !.pc = "sleep",
                     !.slept = Append(@, Backoff * (job.attempt + 1))]
    ELSE AfterLoop(job)

\* except Exception as e (lines 225-229)
Handler(job, type, msg) ==
    IF ExceptException(type)
    THEN RetryOrLeave([job EXCEPT !.last_err = msg])
    ELSE Escaped(job)

\* One primary attempt, from the reply to the next request, sleep or return
\* (lines 211-229): g is what ollama_generate returned or raised, v what
\* validate_preserved_tokens says of the text it returned.
PrimaryAttempt(job, g, v) ==
    LET last_err == << "Validation failed" >> \o v[2]
    IN  IF g.exc # ""
        THEN Handler([job EXCEPT !.nPrimaryFailed = @ + 1,
                                 !.lastFail = g.msg,
                                 !.lastPrimaryFail = g.msg],
                     g.exc, g.msg)
        ELSE IF v[1]
        THEN Returned(job, g.text, None, FALSE)
        ELSE LET failed == [job EXCEPT !.nPrimaryFailed = @ + 1,
                                       !.lastFail = last_err,
                                       !.lastPrimaryFail = last_err,
                                       !.last_err = last_err]
             IN  IF job.attempt < args.retries
                 THEN RetryOrLeave(failed)
                 ELSE Handler(failed, "ValueError", last_err)

\* The end of a sleep: the next iteration of the loop.
NextAttempt(job) ==
    [job EXCEPT !.pc = "primary", !.attempt = @ + 1, !.nPrimary = @ + 1]

\* A fallback attempt whose handler sets last_err as the loop's handler
\* does, so that the returned error is the fallback's.
FallbackAttemptKeepingReason(job, g, v) ==
    LET why == IF g.exc # "" THEN g.msg ELSE << "Validation failed" >> \o v[2]
    IN  IF g.exc = "" /\ v[1]
        THEN Returned(job, g.text, None, TRUE)
        ELSE Returned([job EXCEPT !.nFallbackFailed = @ + 1,
                                  !.lastFail = why],
                      job.text, why, FALSE)

\* The fallback attempt, from the reply to the return (lines 233-243).
FallbackAttempt(job, g, v) ==
    LET kept == Returned([job EXCEPT !.nFallbackFailed = @ + 1],
                         job.text, job.last_err, FALSE)
    IN  IF g.exc # ""
        THEN IF ExceptException(g.exc)
             THEN [kept EXCEPT !.lastFail = g.msg]
             ELSE Escaped(job)
        ELSE IF v[1]
        THEN Returned(job, g.text, None, TRUE)
        ELSE [kept EXCEPT !.lastFail = << "Validation failed" >> \o v[2]]

-----------------------------------------------------------------------------
(* translate_locale up to the executor (lines 319-363) and main.           *)

NoKeys == [given |-> FALSE, keys |-> << >>]

SomeKeys(keys) == [given |-> TRUE, keys |-> keys]

\* dict(source_data) whatever the target, with the tag.
SourceDocument(source, target, locale) == Put(source, LocaleKey, Str(locale))

\* dict(target_data) if target_data else dict(source_data), with the tag.
BaseDocument(source, target, locale) ==
    Put(IF target # << >> THEN target ELSE source, LocaleKey, Str(locale))

\* for key in missing_keys: copy source_data["@" + key] when it is there.
RECURSIVE CopyMetadata(_, _, _)
CopyMetadata(out, source, keys) ==
    IF keys = << >> THEN out
    ELSE LET meta_key == MetaKey(Head(keys))
         IN  CopyMetadata(IF Has(source, meta_key)
                          THEN Put(out, meta_key, Get(source, meta_key))
                          ELSE out,
                          source, Tail(keys))

\* items: the keys to handle, in order (their texts are source_data[k]).
Items(source, missing_keys) ==
    IF missing_keys.given
    THEN SelectSeq(missing_keys.keys,
                   LAMBDA k : is_translatable_entry(k, Get(source, k)))
    ELSE Keys(SelectSeq(source, LAMBDA e : is_translatable_entry(e.k, e.v)))

\* The loop without "out_data[k] = MANUAL_TRANSLATIONS[k][target_locale]".
SkipManual(out, items, locale) == out

\* The loop "Apply manual translations" (lines 338-345).
RECURSIVE ApplyManual(_, _, _)
ApplyManual(out, items, locale) ==
    IF items = << >> THEN out
    ELSE LET k == Head(items)
         IN  ApplyManual(IF HasManual(k, locale)
                         THEN Put(out, k, Str(MANUAL_TRANSLATIONS(k, locale)))
                         ELSE out,
                         Tail(items), locale)

ManualItems(items, locale) == SelectSeq(items, LAMBDA k : HasManual(k, locale))

ItemsToTranslate(items, locale) ==
    SelectSeq(items, LAMBDA k : ~HasManual(k, locale))

\* out_data when the executor starts (lines 320-345).
OutDataBeforeJobs(target_data, locale, missing_keys) ==
    LET base == BaseDocument(source_data, target_data, locale)
        with_meta == IF missing_keys.given
                     THEN CopyMetadata(base, source_data, missing_keys.keys)
                     ELSE base
    IN  ApplyManual(with_meta, Items(source_data, missing_keys), locale)

\* An executor with a worker for every job.
WorkerPerJob == IF total > 1 THEN total ELSE 1

\* max_workers=max(1, args.concurrency)
max_workers == IF args.concurrency > 1 THEN args.concurrency ELSE 1

InFlight == { j \in DOMAIN jobs : jobs[j].pc \in { "primary", "sleep", "fallback" } }

\* main after translate_locale returned result.
AfterTranslateLocale(result) ==
    IF args.l10n_dir
    THEN /\ total_translated' = total_translated + result
         /\ li' = li + 1
         /\ pcMain' = "main"
         /\ exit_code' = exit_code
    ELSE /\ exit_code' = (IF result >= 0 THEN 0 ELSE 1)
         /\ pcMain' = "exit"
         /\ UNCHANGED << li, total_translated >>

Exit(code) ==
    /\ exit_code' = code
    /\ pcMain' = "exit"
    /\ UNCHANGED << li, total_translated >>

\* translate_locale from its call to the executor, or to its early return.
TranslateLocale(target_data, locale, missing_keys) ==
    LET items == Items(source_data, missing_keys)
        todo == ItemsToTranslate(items, locale)
        n_manual == Len(ManualItems(items, locale))
    IN  /\ target_locale' = locale
        /\ out_data' = OutDataBeforeJobs(target_data, locale, missing_keys)
        /\ manual_count' = n_manual
        /\ total' = Len(todo)
        /\ translated_ok' = n_manual
        /\ fallback_used' = 0
        /\ completed' = 0
        /\ failures' = << >>
        /\ IF Len(todo) = 0
           THEN /\ AfterTranslateLocale(n_manual)
                /\ jobs' = << >>
                /\ queue' = << >>
           ELSE /\ pcMain' = "collect"
                /\ jobs' = [j \in 1..Len(todo) |->
                              NewJob(todo[j], Get(source_data, todo[j]).s)]
                /\ queue' = [j \in 1..Len(todo) |-> j]
                /\ UNCHANGED mainVars

\* The next locale is skipped: continue.
SkipLocale ==
    /\ li' = li + 1
    /\ UNCHANGED << pcMain, total_translated, exit_code, runVars, queue, jobs >>

Decision(do, code, target_data, missing_keys) ==
    [do |-> do, code |-> code, target_data |-> target_data,
     missing_keys |-> missing_keys]

\* What main does for one locale (lines 472-498, 510-537): it calls
\* translate_locale with a target document and missing keys, goes on to the
\* next locale, or returns.
Decide(locale) ==
    LET f == disk[locale]
        missing == find_missing_keys(source_data, f.doc)
        none == Decision("continue", 0, << >>, NoKeys)
    IN  IF args.l10n_dir
        THEN IF f.state # "ok"
             THEN none
             ELSE IF args.missing_only
             THEN IF missing = << >>
                  THEN none
                  ELSE Decision("call", 0, f.doc, SomeKeys(missing))
             ELSE Decision("call", 0, f.doc, NoKeys)
        ELSE IF args.missing_only /\ f.state # "absent"
             THEN IF f.state # "ok"
                  THEN Decision("return", 2, << >>, NoKeys)
                  ELSE IF missing = << >>
                  THEN Decision("return", 0, << >>, NoKeys)
                  ELSE Decision("call", 0, f.doc, SomeKeys(missing))
             ELSE Decision("call", 0, << >>, NoKeys)

\* main (lines 461-538), from where it stands to the next call of
\* translate_locale or to its return.
Main ==
    /\ pcMain = "main"
    /\ UNCHANGED << constVars, disk, writes >>
    /\ IF args.l10n_dir /\ Len(locales) = 0
       THEN Exit(1) /\ UNCHANGED << runVars, queue, jobs >>
       ELSE IF li > Len(locales)
       THEN Exit(0) /\ UNCHANGED << runVars, queue, jobs >>
       ELSE LET d == Decide(locales[li])
            IN  CASE d.do = "continue" -> SkipLocale
                  [] d.do = "return" ->
                       Exit(d.code) /\ UNCHANGED << runVars, queue, jobs >>
                  [] OTHER ->
                       TranslateLocale(d.target_data, locales[li], d.missing_keys)

-----------------------------------------------------------------------------
(* The texts of the documents and the texts a backend may generate.        *)

\* "Hi {n}!"
TxtHello == << "H", "i", " ", "{", "n", "}", "!" >>

\* "ok"
TxtPlain == << "o", "k" >>

\* "Done {n}"
TxtDone == << "D", "o", "n", "e", " ", "{", "n", "}" >>

\* "{c, plural, =1{one f} other{{c} f}}"
TxtIcu ==
    << "{", "c", ",", " ", "p", "l", "u", "r", "a", "l", ",", " ",
       "=", "1", "{", "o", "n", "e", " ", "f", "}", " ",
       "o", "t", "h", "e", "r", "{", "{", "c", "}", " ", "f", "}", "}" >>

\* "{days} days {hours}h {minutes}m {seconds}s"
TxtDays ==
    << "{", "d", "a", "y", "s", "}", " ", "d", "a", "y", "s", " ",
       "{", "h", "o", "u", "r", "s", "}", "h", " ",
       "{", "m", "i", "n", "u", "t", "e", "s", "}", "m", " ",
       "{", "s", "e", "c", "o", "n", "d", "s", "}", "s" >>

\* " Yo {n} !\n"
OutHello == << " ", "Y", "o", " ", "{", "n", "}", " ", "!", "\n" >>

\* "Yo !"
OutDropped == << "Y", "o", " ", "!" >>

\* "  "
OutBlank == << " ", " " >>

\* "{c, plural, =1{un f} other{{c} g}}"
OutIcu ==
    << "{", "c", ",", " ", "p", "l", "u", "r", "a", "l", ",", " ",
       "=", "1", "{", "u", "n", " ", "f", "}", " ",
       "o", "t", "h", "e", "r", "{", "{", "c", "}", " ", "g", "}", "}" >>

\* "{c} g"
OutNoIcu == << "{", "c", "}", " ", "g" >>

\* The texts a backend may generate when asked to translate text: a
\* translation that keeps the tokens, one that drops a token, one that
\* loses the plural block, a blank one.
ReplyTexts(text) ==
    CASE text = TxtIcu -> { OutIcu, OutNoIcu, OutDropped, OutBlank }
      [] text = TxtDays -> { ManualFr, OutDropped, OutBlank }
      [] OTHER -> { OutHello, OutDropped, OutBlank }

\* The replies to one request for text.
Replies(text) ==
    { Reply("transport", << >>), Reply("unparsable", << >>),
      Reply("null", << >>), Reply("absent", << >>) }
    \cup { Reply("text", t) : t \in ReplyTexts(text) }

-----------------------------------------------------------------------------
(* Scheduler: the executor's workers and the collecting loop.              *)

\* A worker takes the next future of the queue and runs translate_one to
\* its first request (or to its return).
StartJob ==
    /\ queue # << >>
    /\ Cardinality(InFlight) < max_workers
    /\ jobs' = [jobs EXCEPT ![Head(queue)] = EnterLoop(@)]
    /\ queue' = Tail(queue)
    /\ UNCHANGED << constVars, disk, writes, mainVars, pcMain, runVars >>

\* The primary backend answers the request of job j.
PrimaryReply(j) ==
    /\ jobs[j].pc = "primary"
    /\ \E r \in Replies(jobs[j].text) :
         \E g \in { ollama_generate(r) } :
           \E v \in { validate_preserved_tokens(jobs[j].text, g.text) } :
               jobs' = [jobs EXCEPT ![j] = PrimaryAttempt(@, g, v)]
    /\ UNCHANGED << constVars, disk, writes, mainVars, pcMain, runVars, queue >>

\* The backoff sleep of job j ends.
Wake(j) ==
    /\ jobs[j].pc = "sleep"
    /\ jobs' = [jobs EXCEPT ![j] = NextAttempt(@)]
    /\ UNCHANGED << constVars, disk, writes, mainVars, pcMain, runVars, queue >>

\* The fallback backend answers the request of job j.
FallbackReply(j) ==
    /\ jobs[j].pc = "fallback"
    /\ \E r \in Replies(jobs[j].text) :
         \E g \in { ollama_generate(r) } :
           \E v \in { validate_preserved_tokens(jobs[j].text, g.text) } :
               jobs' = [jobs EXCEPT ![j] = FallbackAttempt(@, g, v)]
    /\ UNCHANGED << constVars, disk, writes, mainVars, pcMain, runVars, queue >>

\* Counters that keep the fallback successes out of translated_ok.
CountedApart(res) ==
    IF res.err # << >>
    THEN [translated_ok |-> translated_ok, fallback_used |-> fallback_used]
    ELSE IF res.used_fallback
    THEN [translated_ok |-> translated_ok, fallback_used |-> fallback_used + 1]
    ELSE [translated_ok |-> translated_ok + 1, fallback_used |-> fallback_used]

\* The counters after an outcome (lines 386-395).
Counted(res) ==
    IF res.err # << >>
    THEN [translated_ok |-> translated_ok, fallback_used |-> fallback_used]
    ELSE [translated_ok |-> translated_ok + 1,
          fallback_used |-> IF res.used_fallback THEN fallback_used + 1
                                                 ELSE fallback_used]

\* failures written by a thread that read the list before the others
\* appended to it: the earlier entries are lost.
FailuresOverwritten(k, res) ==
    IF res.err # << >> THEN << << k, res.err >> >> ELSE failures

\* failures after an outcome (lines 386-387).
Failures(k, res) ==
    IF res.err # << >> THEN Append(failures, << k, res.err >>) ELSE failures

\* as_completed yields the future of job j; the body of the loop
\* (lines 382-395).  A future that holds an exception raises it here.
Collect(j) ==
    /\ pcMain = "collect"
    /\ jobs[j].pc \in { "done", "raised" }
    /\ jobs[j].merged = 0
    /\ jobs' = [jobs EXCEPT ![j].merged = 1]
    /\ UNCHANGED << constVars, disk, writes, mainVars, queue, target_locale,
                    manual_count, total >>
    /\ IF jobs[j].pc = "raised"
       THEN /\ pcMain' = "crashed"
            /\ UNCHANGED << out_data, completed, failures, translated_ok,
                            fallback_used >>
       ELSE LET res == jobs[j].result
            IN  /\ pcMain' = pcMain
                /\ out_data' = Put(out_data, jobs[j].key, Str(res.text))
                /\ completed' = completed + 1
                /\ failures' = Failures(jobs[j].key, res)
                /\ translated_ok' = Counted(res).translated_ok
                /\ fallback_used' = Counted(res).fallback_used

\* The end of translate_locale once every future was collected
\* (lines 403-427): the report, then the write unless --dry-run.
Finish ==
    /\ pcMain = "collect"
    /\ \A j \in DOMAIN jobs : jobs[j].merged = 1
    /\ UNCHANGED << constVars, runVars, queue, jobs >>
    /\ IF args.dry_run
       THEN /\ AfterTranslateLocale(translated_ok)
            /\ UNCHANGED << disk, writes >>
       ELSE \E w \in { "written", "open fails", "dump fails" } :
                CASE w = "written" ->
                       /\ disk' = [disk EXCEPT ![target_locale] =
                                       [state |-> "ok", doc |-> out_data]]
                       /\ writes' = [writes EXCEPT ![target_locale] = @ + 1]
                       /\ AfterTranslateLocale(translated_ok)
                  [] w = "open fails" ->
                       /\ UNCHANGED << disk, writes >>
                       /\ AfterTranslateLocale(-1)
                  [] OTHER ->
                       /\ disk' = [disk EXCEPT ![target_locale] =
                                       [state |-> "unreadable", doc |-> << >>]]
                       /\ UNCHANGED writes
                       /\ AfterTranslateLocale(-1)

-----------------------------------------------------------------------------
(* The runs checked: documents, target files and command lines.            *)

Description == Obj(<< "description" >>)

\* {"@@locale": "en", "greeting": "Hi {n}!", "@greeting": {...}, "bye": "ok"}
SrcGreeting ==
    << Entry(LocaleKey, Str(En)),
       Entry(Key("greeting"), Str(TxtHello)),
       Entry(MetaKey(Key("greeting")), Description),
       Entry(Key("bye"), Str(TxtPlain)) >>

\* {"@@locale": "en", "greeting": "Hi {n}!", "@greeting": {...}}
SrcHello == SubSeq(SrcGreeting, 1, 3)

\* {"@@locale": "en", "files": "{c, plural, ...}", "done": "Done {n}"}
SrcIcu ==
    << Entry(LocaleKey, Str(En)),
       Entry(Key("files"), Str(TxtIcu)),
       Entry(Key("done"), Str(TxtDone)) >>

\* A document with a key of SKIP_KEYS, a key of MANUAL_TRANSLATIONS, a
\* blank text and a value that is no str.
SrcApp ==
    << Entry(LocaleKey, Str(En)),
       Entry(Key("appTitle"), Str(TxtPlain)),
       Entry(Key("repeater_daysHoursMinsSecs"), Str(TxtDays)),
       Entry(MetaKey(Key("repeater_daysHoursMinsSecs")), Description),
       Entry(Key("greeting"), Str(TxtHello)),
       Entry(Key("empty"), Str(OutBlank)),
       Entry(Key("count"), Num(<< "3" >>)) >>

SrcManual ==
    << Entry(LocaleKey, Str(En)),
       Entry(Key("repeater_daysHoursMinsSecs"), Str(TxtDays)) >>

\* A key of MANUAL_TRANSLATIONS with its metadata, and a plain key.
SrcDays ==
    << Entry(LocaleKey, Str(En)),
       Entry(Key("repeater_daysHoursMinsSecs"), Str(TxtDays)),
       Entry(MetaKey(Key("repeater_daysHoursMinsSecs")), Description),
       Entry(Key("bye"), Str(TxtPlain)) >>

Absent == [state |-> "absent", doc |-> << >>]

Unreadable == [state |-> "unreadable", doc |-> << >>]

File(doc) == [state |-> "ok", doc |-> doc]

TgtTag(locale) == << Entry(LocaleKey, Str(locale)) >>

TgtGreeting(locale) ==
    << Entry(LocaleKey, Str(locale)),
       Entry(Key("greeting"), Str(Strip(OutHello))) >>

\* A target that still has the tag of the template it was copied from, and
\* an older text for the key of MANUAL_TRANSLATIONS.
TgtDays ==
    << Entry(LocaleKey, Str(En)),
       Entry(Key("repeater_daysHoursMinsSecs"), Str(OutNoIcu)) >>

Run(l10n_dir, missing_only, source, locs, files) ==
    [l10n_dir |-> l10n_dir, missing_only |-> missing_only, source |-> source,
     locales |-> locs, disk |-> files]

AllLocales == { Fr, De, Tr }

Files(f) == [l \in AllLocales |-> f]

\* app_de.arb has the tag alone, app_fr.arb is TgtDays.
DaysFiles ==
    [l \in AllLocales |->
        CASE l = De -> File(TgtTag(De))
          [] l = Fr -> File(TgtDays)
          [] OTHER -> Absent]

Runs ==
    { Run(FALSE, FALSE, SrcHello, << Fr >>, Files(Absent)),
      Run(FALSE, TRUE, SrcGreeting, << Fr >>, Files(File(TgtTag(Fr)))),
      Run(FALSE, TRUE, SrcGreeting, << Fr >>, Files(File(TgtGreeting(Fr)))),
      Run(FALSE, TRUE, SrcGreeting, << Fr >>, Files(Unreadable)),
      Run(FALSE, FALSE, SrcIcu, << Tr >>, Files(Absent)),
      Run(FALSE, FALSE, SrcManual, << Fr >>, Files(Absent)),
      Run(TRUE, FALSE, SrcApp, << Fr >>, Files(File(TgtTag(Fr)))),
      Run(TRUE, TRUE, SrcApp, << Tr >>, Files(File(TgtGreeting(Tr)))),
      Run(TRUE, TRUE, SrcGreeting, << >>, Files(Absent)),
      Run(TRUE, TRUE, SrcDays, << De, Fr >>, DaysFiles),
      Run(FALSE, FALSE, SrcApp, << De >>, Files(Absent)) }

\* The largest --retries and --concurrency checked.
MaxRetries == 1

MaxConcurrency == 2

Start(run, retries, concurrency, fallback_model, dry_run) ==
    /\ args = [l10n_dir |-> run.l10n_dir, missing_only |-> run.missing_only,
               retries |-> retries, concurrency |-> concurrency,
               fallback_model |-> fallback_model, dry_run |-> dry_run]
    /\ source_data = run.source
    /\ locales = run.locales
    /\ disk = run.disk
    /\ writes = [l \in AllLocales |-> 0]
    /\ li = 1
    /\ total_translated = 0
    /\ exit_code = -1
    /\ pcMain = "main"
    /\ target_locale = << >>
    /\ out_data = << >>
    /\ manual_count = 0
    /\ total = 0
    /\ translated_ok = 0
    /\ fallback_used = 0
    /\ completed = 0
    /\ failures = << >>
    /\ queue = << >>
    /\ jobs = << >>
    /\ call = [fn |-> "main"]
    /\ ret = [done |-> FALSE]

Init ==
    \E run \in Runs, retries \in (-1)..MaxRetries,
       concurrency \in 0..MaxConcurrency, fallback_model, dry_run \in BOOLEAN :
        Start(run, retries, concurrency, fallback_model, dry_run)

Next ==
    \/ Main
    \/ StartJob
    \/ \E j \in DOMAIN jobs : PrimaryReply(j)
    \/ \E j \in DOMAIN jobs : Wake(j)
    \/ \E j \in DOMAIN jobs : FallbackReply(j)
    \/ \E j \in DOMAIN jobs : Collect(j)
    \/ Finish

Spec == Init /\ [][Next]_vars

-----------------------------------------------------------------------------
(* Claims about translate_one and the scheduler.                           *)

Done == { j \in DOMAIN jobs : jobs[j].pc = "done" }

\* The "{" at position i opens an ICU construct that is still open at pos.
InsideIcuBlock(s, pos) ==
    \E i \in 1..(pos - 1) :
        /\ ICU_VAR_RE(s, i)
        /\ \A k \in (i + 1)..pos :
               Cardinality({ m \in i..(k - 1) : s[m] = "{" })
                   > Cardinality({ m \in i..(k - 1) : s[m] = "}" })

\* The names a reader protects: the ICU argument names and the names of the
\* simple placeholders, but for the bodies of the case labels of an ICU block.
ProtectedNames(s) ==
    { Group1(s, i) : i \in { p \in 1..Len(s) : ICU_VAR_RE(s, p) } }
    \cup
    { Group1(s, i) :
        i \in { p \in 1..Len(s) :
                  /\ SIMPLE_PLACEHOLDER_RE(s, p)
                  /\ ~ICU_VAR_RE(s, p)
                  /\ ~(InsideIcuBlock(s, p) /\ AfterCaseLabel(s, p)) } }

\* name occurs in out as "{name}" or as "{name,".
OccursIn(name, out) ==
    \E i \in 1..Len(out) :
        /\ LitAt(out, i, << "{" >> \o name, FALSE)
        /\ \/ CharAt(out, i + 1 + Len(name), "}")
           \/ CharAt(out, i + 1 + Len(name), ",")

Preserved(src, out) ==
    /\ \A name \in ProtectedNames(src) : OccursIn(name, out)
    /\ (\E i \in 1..Len(src) : ICU_VAR_RE(src, i))
           => (\E i \in 1..Len(out) : ICU_VAR_RE(out, i))

\* C1: the outcome text of translate_one is the source text, or a text that
\* keeps every placeholder and ICU argument name of the source, as "{name}"
\* or "{name,", and has an ICU block whenever the source has one.
C1_PlaceholderSafety ==
    \A j \in Done :
        \/ jobs[j].result.text = jobs[j].text
        \/ Preserved(jobs[j].text, jobs[j].result.text)

\* max(0, retries + 1): the length of range(retries + 1).
PrimaryBudget == IF args.retries + 1 > 0 THEN args.retries + 1 ELSE 0

\* C2: translate_one lets no exception escape and ends: whatever the
\* backends answer, no future holds an exception and the collecting loop
\* never raises; a job sends at most retries+1 primary requests and one
\* fallback request, and a job that ended executed one return statement.
C2_NoExceptionEscapes ==
    /\ pcMain # "crashed"
    /\ \A j \in DOMAIN jobs :
           /\ jobs[j].pc # "raised"
           /\ jobs[j].nPrimary <= PrimaryBudget
           /\ jobs[j].nFallback <= 1
           /\ jobs[j].returns = (IF jobs[j].pc = "done" THEN 1 ELSE 0)

\* A job ended after a transport error, an unparsable reply and a reply of
\* null: every primary attempt and the fallback attempt raised.
C2_Witness ==
    \E j \in Done :
        /\ jobs[j].nPrimaryFailed = 2
        /\ jobs[j].nFallbackFailed = 1
        /\ jobs[j].last_err = << "JSONDecodeError" >>
        /\ jobs[j].lastFail \in { << "URLError" >>, << "AttributeError" >> }

\* C3: the outcome text of a job is never empty.
C3_OutcomeTextNotEmpty ==
    \A j \in Done :
        /\ jobs[j].result.text # << >>
        /\ jobs[j].merged = 1 => Get(out_data, jobs[j].key) # Str(<< >>)

\* C4: between one and retries+1 primary attempts, stopping at the first
\* that passes; the fallback request only after retries+1 failed primary
\* attempts, only with a fallback configured, and then once.
C4_AttemptBudget ==
    \A j \in DOMAIN jobs :
        /\ jobs[j].nPrimary <= args.retries + 1
        /\ jobs[j].pc \in { "fallback", "done" } => jobs[j].nPrimary >= 1
        /\ jobs[j].nPrimaryFailed >= jobs[j].nPrimary - 1
        /\ jobs[j].pc \in { "done", "fallback" }
               => \/ jobs[j].nPrimaryFailed = args.retries + 1
                  \/ /\ jobs[j].nPrimaryFailed = jobs[j].nPrimary - 1
                     /\ jobs[j].pc = "done"
                     /\ jobs[j].nFallback = 0
        /\ jobs[j].nFallback <= 1
        /\ jobs[j].nFallback = 1
               => args.fallback_model /\ jobs[j].nPrimaryFailed = args.retries + 1
        /\ (jobs[j].pc = "done" /\ args.fallback_model
               /\ jobs[j].nPrimaryFailed = jobs[j].nPrimary)
               => jobs[j].nFallback = 1

\* Every attempt of job j failed.
AllAttemptsFailed(j) ==
    /\ jobs[j].pc = "done"
    /\ jobs[j].nPrimaryFailed = jobs[j].nPrimary
    /\ jobs[j].nFallbackFailed = jobs[j].nFallback

ValidationFailed(why) == << "Validation failed" >> \o why

\* C5 as claimed, for a retry budget of 0 or more: when every attempt
\* failed the outcome is the source text, without used_fallback, and its
\* error is the reason of the last failing attempt.
C5_LastFailingAttemptRecorded ==
    \A j \in DOMAIN jobs :
        (args.retries >= 0 /\ AllAttemptsFailed(j))
            => /\ jobs[j].result.text = jobs[j].text
               /\ ~jobs[j].result.used_fallback
               /\ jobs[j].result.err = jobs[j].lastFail

\* C5 as amended: when every attempt failed the outcome is the source text,
\* without used_fallback, and its error is the reason of the last failing
\* primary attempt (None when there was none): what the fallback attempt
\* failed with is not recorded.  When the last primary reply dropped {n} and
\* no fallback is configured, the error names the missing placeholder {n}.
C5_LastPrimaryFailureRecorded ==
    \A j \in DOMAIN jobs :
        AllAttemptsFailed(j)
            => /\ jobs[j].result.text = jobs[j].text
               /\ ~jobs[j].result.used_fallback
               /\ jobs[j].result.err = jobs[j].lastPrimaryFail
               /\ (/\ ~args.fallback_model
                   /\ jobs[j].lastFail
                          = ValidationFailed(MissingPlaceholder(<< "n" >>)))
                      => jobs[j].result.err
                             = << "Validation failed", "Missing placeholder",
                                  << "n" >> >>

\* Every attempt failed, the fallback attempt for another reason than the
\* last primary attempt.
C5_Witness ==
    \E j \in DOMAIN jobs :
        /\ AllAttemptsFailed(j)
        /\ jobs[j].nFallback = 1
        /\ jobs[j].nPrimary >= 2
        /\ jobs[j].lastFail = << "URLError" >>
        /\ jobs[j].result.err = ValidationFailed(MissingPlaceholder(<< "n" >>))

Merged == { j \in DOMAIN jobs : jobs[j].merged = 1 }

\* The fallback request of job j was answered by a text that passes.
FallbackPassed(j) ==
    /\ jobs[j].pc = "done"
    /\ jobs[j].nFallback = 1
    /\ jobs[j].nFallbackFailed = 0

\* What a fallback success gives: the text the fallback backend generated,
\* which passes validation, no error, used_fallback.
FallbackOutcome(j) ==
    /\ jobs[j].result.used_fallback
    /\ jobs[j].result.err = None
    /\ jobs[j].result.text \in { Strip(t) : t \in ReplyTexts(jobs[j].text) }
    /\ validate_preserved_tokens(jobs[j].text, jobs[j].result.text)[1]
    /\ jobs[j].nPrimaryFailed = PrimaryBudget

\* C6 as claimed: a fallback success is the fallback's translation with no
\* error and used_fallback, and the OK count (less the overrides) counts the
\* plain successes only, the fallback-used count the fallback successes.
C6_FallbackCountedSeparately ==
    /\ \A j \in DOMAIN jobs : FallbackPassed(j) => FallbackOutcome(j)
    /\ fallback_used
           = Cardinality({ j \in Merged : jobs[j].result.used_fallback })
    /\ translated_ok - manual_count
           = Cardinality({ j \in Merged : /\ jobs[j].result.err = None
                                          /\ ~jobs[j].result.used_fallback })

\* C6 as amended: a fallback success is the fallback's translation with no
\* error and used_fallback; the fallback-used count counts the fallback
\* successes, and the OK count (less the overrides) counts every success,
\* the fallback successes among them.
C6_FallbackCountedInBoth ==
    /\ \A j \in DOMAIN jobs : FallbackPassed(j) => FallbackOutcome(j)
    /\ fallback_used
           = Cardinality({ j \in Merged : jobs[j].result.used_fallback })
    /\ translated_ok - manual_count
           = Cardinality({ j \in Merged : jobs[j].result.err = None })

\* After an override, a fallback success was collected.
C6_Witness ==
    /\ manual_count = 1
    /\ fallback_used = 1
    /\ translated_ok = 2
    /\ \E j \in Merged : FallbackPassed(j) /\ jobs[j].nPrimaryFailed >= 2

RECURSIVE MergeInOrder(_, _)
MergeInOrder(doc, j) ==
    IF j > Len(jobs) THEN doc
    ELSE MergeInOrder(Put(doc, jobs[j].key, Str(jobs[j].result.text)), j + 1)

\* The document that collecting the outcomes in submission order gives, as
\* one worker gives them.
SubmissionOrderDocument ==
    LET d == Decide(locales[li])
    IN  MergeInOrder(OutDataBeforeJobs(d.target_data, locales[li],
                                       d.missing_keys), 1)

\* C7: whatever the order in which the jobs complete, the output document,
\* an ordered mapping, is the one the submission order gives.
C7_OrderIndependentDocument ==
    (pcMain = "collect" /\ Merged = DOMAIN jobs)
        => out_data = SubmissionOrderDocument

\* C8: the jobs in flight are at most max(1, concurrency).
C8_BoundedParallelism ==
    Cardinality(InFlight) <= (IF args.concurrency >= 1 THEN args.concurrency ELSE 1)

\* With --concurrency 0 one job sleeps in backoff and another one waits.
C8_Witness ==
    /\ args.concurrency = 0
    /\ queue # << >>
    /\ \E j \in InFlight : jobs[j].pc = "sleep"

\* The run of two jobs with --missing-only and the largest retry budget, on
\* one worker and on MaxConcurrency workers, with and without a fallback.
LiveInit ==
    \E concurrency \in { 1, MaxConcurrency }, fallback_model \in BOOLEAN :
        Start(Run(FALSE, TRUE, SrcGreeting, << Fr >>, Files(File(TgtTag(Fr)))),
              MaxRetries, concurrency, fallback_model, FALSE)

\* A step that can be taken is taken: a worker thread that can start a job
\* starts it, a request is answered or times out, a sleep ends, and the
\* main thread goes on once a future has completed.
LiveSpec == LiveInit /\ [][Next]_vars /\ WF_vars(Next)

\* Every job of the run has one outcome, merged under its key.
AllMerged ==
    /\ completed = total
    /\ \A j \in DOMAIN jobs :
           /\ jobs[j].pc = "done"
           /\ jobs[j].returns = 1
           /\ jobs[j].merged = 1
           /\ Get(out_data, jobs[j].key) = Str(jobs[j].result.text)

\* C9: no job ever has two outcomes, and once the jobs are submitted the run
\* comes to a state where every job has exactly one outcome, merged under
\* its key, and completed = total, whatever jobs failed.
C9_EveryJobMerged ==
    /\ [](\A j \in DOMAIN jobs : jobs[j].returns <= 1 /\ jobs[j].merged <= 1)
    /\ ((pcMain = "collect") ~> AllMerged)

\* A job that failed all its attempts and a job that succeeded are merged.
C9_Witness ==
    /\ AllMerged
    /\ \E j \in DOMAIN jobs :
           /\ AllAttemptsFailed(j)
           /\ jobs[j].nPrimary = args.retries + 1
           /\ jobs[j].slept # << >>
           /\ jobs[j].nFallback = 1
    /\ \E j \in DOMAIN jobs : jobs[j].result.err = None /\ jobs[j].nPrimary >= 1

-----------------------------------------------------------------------------
(* extract_placeholder_names and has_icu_block called on their own.        *)

\* The pieces the strings are made of.
Fragments ==
    { << "{", "c", ",", "p", "l", "u", "r", "a", "l", "," >>,
      << "=", "1" >>,
      << "o", "t", "h", "e", "r" >>,
      << "{", "n", "}" >>,
      << "{" >>,
      << "}" >>,
      << "D", "o", "n", "e", " " >>,
      << "x" >> }

\* The largest number of pieces of a string.
MaxFrags == 4

RECURSIVE Concatenations(_)
Concatenations(n) ==
    IF n = 0 THEN { << >> }
    ELSE LET shorter == Concatenations(n - 1)
         IN  shorter \cup { a \o f : a \in shorter, f \in Fragments }

TxtFiles ==
    << "{", "c", "o", "u", "n", "t", ",", " ", "p", "l", "u", "r", "a", "l",
       ",", " ", "=", "1", "{", "o", "n", "e", " ", "f", "i", "l", "e", "}",
       " ", "o", "t", "h", "e", "r", "{", "{", "c", "o", "u", "n", "t", "}",
       " ", "f", "i", "l", "e", "s", "}", "}" >>

Strings == Concatenations(MaxFrags) \cup { TxtFiles, TxtIcu, TxtHello, TxtPlain }

\* No run of main: only the call of the two functions on s.
UnitInit ==
    /\ \E s \in Strings : call = [fn |-> "extract_placeholder_names", s |-> s]
    /\ ret = [done |-> FALSE]
    /\ args = [l10n_dir |-> FALSE, missing_only |-> FALSE, retries |-> 0,
               concurrency |-> 1, fallback_model |-> FALSE, dry_run |-> TRUE]
    /\ source_data = << >>
    /\ locales = << >>
    /\ disk = [l \in AllLocales |-> Absent]
    /\ writes = [l \in AllLocales |-> 0]
    /\ li = 1
    /\ total_translated = 0
    /\ exit_code = -1
    /\ pcMain = "exit"
    /\ target_locale = << >>
    /\ out_data = << >>
    /\ manual_count = 0
    /\ total = 0
    /\ translated_ok = 0
    /\ fallback_used = 0
    /\ completed = 0
    /\ failures = << >>
    /\ queue = << >>
    /\ jobs = << >>

\* names = extract_placeholder_names(text); has_icu = has_icu_block(text)
Extract ==
    /\ call.fn = "extract_placeholder_names"
    /\ ~ret.done
    /\ ret' = [done |-> TRUE,
               names |-> extract_placeholder_names(call.s),
               has_icu |-> has_icu_block(call.s)]
    /\ UNCHANGED << args, source_data, locales, call, disk, writes, mainVars,
                    pcMain, runVars, queue, jobs >>

UnitNext == Extract

UnitSpec == UnitInit /\ [][UnitNext]_vars

\* s has an ICU construct: "{name, plural|select|selectordinal,".
HasIcuConstruct(s) == \E i \in 1..Len(s) : ICU_VAR_RE(s, i)

\* C10: extract_placeholder_names(s) is exactly the ICU argument names of s
\* and its simple placeholders, but for the bodies of the case labels inside
\* an ICU block, and has_icu_block(s) says whether s has an ICU construct;
\* the plural example gives {count} and true, a brace-free string the empty
\* set and false.
C10_ExactProtectedNames ==
    ret.done
        => /\ ret.names = Sorted(ProtectedNames(call.s))
           /\ ret.has_icu = HasIcuConstruct(call.s)
           /\ (call.s = TxtFiles
                  => (ret.names = << << "c", "o", "u", "n", "t" >> >>
                         /\ ret.has_icu))
           /\ ((\A i \in 1..Len(call.s) : call.s[i] \notin { "{", "}" })
                  => (ret.names = << >> /\ ~ret.has_icu))

-----------------------------------------------------------------------------
(* validate_preserved_tokens called on its own.                            *)

\* No run of main: every variable of a run as main finds it.
NoRun ==
    /\ args = [l10n_dir |-> FALSE, missing_only |-> FALSE, retries |-> 0,
               concurrency |-> 1, fallback_model |-> FALSE, dry_run |-> TRUE]
    /\ source_data = << >>
    /\ locales = << >>
    /\ disk = [l \in AllLocales |-> Absent]
    /\ writes = [l \in AllLocales |-> 0]
    /\ li = 1
    /\ total_translated = 0
    /\ exit_code = -1
    /\ pcMain = "exit"
    /\ target_locale = << >>
    /\ out_data = << >>
    /\ manual_count = 0
    /\ total = 0
    /\ translated_ok = 0
    /\ fallback_used = 0
    /\ completed = 0
    /\ failures = << >>
    /\ queue = << >>
    /\ jobs = << >>

\* The largest number of pieces of a source text given to the validator.
MaxSrcFrags == 2

\* "{a} and {b}"
TxtTwo == << "{", "a", "}", " ", "a", "n", "d", " ", "{", "b", "}" >>

SourceTexts ==
    Concatenations(MaxSrcFrags)
        \cup { TxtHello, TxtPlain, TxtDone, TxtIcu, TxtDays, TxtTwo }

\* s without its characters i..j.
Without(s, i, j) == SubSeq(s, 1, i - 1) \o SubSeq(s, j + 1, Len(s))

\* "Yo {n , x"
OutSpaced == << "Y", "o", " ", "{", "n", " ", ",", " ", "x" >>

\* The candidates for src: src itself, src with any run of characters cut
\* out, and the texts of the backends.
Candidates(src) ==
    { src }
        \cup { Without(src, i, j) : i \in 1..Len(src), j \in 1..Len(src) }
        \cup { OutHello, OutDropped, OutBlank, OutIcu, OutNoIcu, OutSpaced }

ValidatorInit ==
    /\ \E src \in SourceTexts : \E out \in Candidates(src) :
           call = [fn |-> "validate_preserved_tokens", src |-> src, out |-> out]
    /\ ret = [done |-> FALSE]
    /\ NoRun

\* ok, why = validate_preserved_tokens(src, out)
Validate ==
    /\ call.fn = "validate_preserved_tokens"
    /\ ~ret.done
    /\ \E v \in { validate_preserved_tokens(call.src, call.out) } :
           ret' = [done |-> TRUE, ok |-> v[1], why |-> v[2]]
    /\ UNCHANGED << args, source_data, locales, call, disk, writes, mainVars,
                    pcMain, runVars, queue, jobs >>

ValidatorNext == Validate

ValidatorSpec == ValidatorInit /\ [][ValidatorNext]_vars

\* C11: a candidate equal to the source text passes: (True, None).
C11_IdentityPasses ==
    (ret.done /\ call.out = call.src) => (ret.ok /\ ret.why = None)

\* The source text has a plural block and placeholders and was validated
\* against itself.
C11_Witness ==
    /\ ret.done
    /\ call.out = call.src
    /\ has_icu_block(call.src)
    /\ Len(extract_placeholder_names(call.src)) >= 2

\* C12: for every protected token of the source, a candidate in which no
\* "{name}" and no "{name," remains fails with the reason that names that
\* token; and a candidate without an ICU construct fails when the source
\* has one.
C12_RemovedTokenRejected ==
    ret.done
        => /\ \A name \in ProtectedNames(call.src) :
                  ~OccursIn(name, call.out)
                      => (~ret.ok /\ ret.why = MissingPlaceholder(name))
           /\ (HasIcuConstruct(call.src) /\ ~HasIcuConstruct(call.out))
                  => ~ret.ok

-----------------------------------------------------------------------------
(* find_missing_keys and is_translatable_entry called on their own.        *)

KeyPool ==
    { LocaleKey, Key("greeting"), MetaKey(Key("greeting")), Key("appTitle"),
      Key("bye") }

\* "ok", "  ", "" and the number 3.
ValuePool == { Str(TxtPlain), Str(OutBlank), Str(<< >>), Num(<< "3" >>) }

\* The largest number of entries of a source document.
MaxEntries == 2

\* The documents of at most n entries: no key twice, as in a dict.
RECURSIVE Documents(_)
Documents(n) ==
    IF n = 0 THEN { << >> }
    ELSE LET shorter == Documents(n - 1)
         IN  shorter \cup
             UNION { { Append(d, Entry(k, v)) :
                         k \in KeyPool \ Range(Keys(d)), v \in ValuePool } :
                     d \in { x \in shorter : Len(x) = n - 1 } }

\* The target documents for a source: none, the source itself, a document
\* of one entry, and the source with one entry changed or left out.
Targets(source) ==
    { << >>, source }
        \cup Documents(1)
        \cup { [source EXCEPT ![i].v = v] :
                 i \in 1..Len(source), v \in ValuePool }
        \cup { Without(source, i, i) : i \in 1..Len(source) }

DiffInit ==
    /\ \E source \in Documents(MaxEntries) : \E target \in Targets(source) :
           call = [fn |-> "find_missing_keys", source |-> source,
                   target |-> target]
    /\ ret = [done |-> FALSE]
    /\ NoRun

\* missing = find_missing_keys(source, target), and the keys of source for
\* which is_translatable_entry holds.
Diff ==
    /\ call.fn = "find_missing_keys"
    /\ ~ret.done
    /\ ret' = [done |-> TRUE,
               missing |-> find_missing_keys(call.source, call.target),
               translatable |->
                   Keys(SelectSeq(call.source,
                                  LAMBDA e : is_translatable_entry(e.k, e.v)))]
    /\ UNCHANGED << args, source_data, locales, call, disk, writes, mainVars,
                    pcMain, runVars, queue, jobs >>

DiffNext == Diff

DiffSpec == DiffInit /\ [][DiffNext]_vars

\* v is a str of white space only (or empty).
BlankText(v) == v.t = "str" /\ \A i \in 1..Len(v.s) : IsSpace(v.s[i])

\* The keys that are missing: no metadata key, not the locale tag, and
\* absent from target or blank in it.
MissingKeys(source, target) ==
    { k \in Range(Keys(source)) :
        /\ k.at = 0
        /\ \/ ~Has(target, k)
           \/ BlankText(Get(target, k)) }

\* C13: find_missing_keys returns exactly the keys of source that are no
\* metadata key and not the locale tag and are absent from target or blank
\* in it, each once; a key with non-blank text in target is not returned.
C13_ExactlyTheMissingKeys ==
    ret.done
        => /\ Range(ret.missing) = MissingKeys(call.source, call.target)
           /\ Len(ret.missing) = Cardinality(Range(ret.missing))
           /\ \A k \in Range(ret.missing) :
                  ~(/\ Has(call.target, k)
                    /\ Get(call.target, k).t = "str"
                    /\ ~BlankText(Get(call.target, k)))

\* Of two keys of the source one is blank in the target and returned, the
\* other has text in the target and is not.
C13_Witness ==
    /\ ret.done
    /\ Len(call.source) = 2
    /\ Len(call.target) = 2
    /\ Len(ret.missing) = 1
    /\ Get(call.target, ret.missing[1]) = Str(OutBlank)

\* C14 as claimed: with an empty target find_missing_keys returns exactly
\* the translatable keys of the source, and with the source as target it
\* returns nothing.
C14_BoundaryCases ==
    ret.done
        => /\ call.target = << >>
                  => Range(ret.missing) = Range(ret.translatable)
           /\ call.target = call.source => ret.missing = << >>

\* The keys of d that are no metadata key and not the locale tag.
PlainKeys(d) == { k \in Range(Keys(d)) : k.at = 0 }

\* C14 as amended: with an empty target find_missing_keys returns every key
\* of the source that is no metadata key and not the locale tag, so all the
\* translatable keys and with them the skip-set keys, the blank texts and
\* the values that are no str; with the source as target it returns the
\* keys whose text is blank.
C14_BoundaryCasesOfPlainKeys ==
    ret.done
        => /\ call.target = << >>
                  => /\ Range(ret.missing) = PlainKeys(call.source)
                     /\ Range(ret.translatable) \subseteq Range(ret.missing)
           /\ call.target = call.source
                  => Range(ret.missing)
                         = { k \in PlainKeys(call.source) :
                               BlankText(Get(call.source, k)) }

\* With an empty target the skip-set key is returned with a translatable
\* key.
C14_Witness ==
    /\ ret.done
    /\ call.target = << >>
    /\ Key("appTitle") \in Range(ret.missing)
    /\ ret.translatable # << >>
    /\ Len(ret.missing) = 2

-----------------------------------------------------------------------------
(* Claims about translate_locale and main.                                 *)

\* translate_locale was called for target_locale and the target file is
\* still as main found it: the jobs are running or being collected, or
\* there was no job at all.
InRun == target_locale # << >> /\ (pcMain = "collect" \/ total = 0)

\* The keys of the source with an entry of MANUAL_TRANSLATIONS for locale.
OverrideKeys(locale) ==
    { k \in Range(Keys(source_data)) : HasManual(k, locale) }

JobKeys == { jobs[j].key : j \in DOMAIN jobs }

\* C15 as claimed: in every run mode, every key of the source with an
\* override for the target locale has the curated text in the output
\* document, and no job, so no backend request, exists for it.
C15_OverridesAlwaysApplied ==
    InRun
        => \A k \in OverrideKeys(target_locale) :
               /\ k \notin JobKeys
               /\ Has(out_data, k)
               /\ Get(out_data, k) = Str(MANUAL_TRANSLATIONS(k, target_locale))

\* The keys translate_locale handles: the translatable entries of the
\* source, in missing-only mode those that are missing from the target.
HandledKeys ==
    LET d == Decide(target_locale)
        translatable ==
            { k \in Range(Keys(source_data)) :
                k.at = 0 /\ k \notin SKIP_KEYS
                    /\ Get(source_data, k).t = "str"
                    /\ ~BlankText(Get(source_data, k)) }
    IN  IF d.missing_keys.given
        THEN translatable \cap MissingKeys(source_data, d.target_data)
        ELSE translatable

\* C15 as amended: no job exists for a key with an override for the target
\* locale; the key has the curated text in the output document when it is
\* one of the keys handled, and otherwise (in missing-only mode, a key the
\* target already has a text for) it keeps the value of the target.
C15_OverridesAppliedToHandledKeys ==
    InRun
        => \A k \in OverrideKeys(target_locale) :
               /\ k \notin JobKeys
               /\ Has(out_data, k)
               /\ Get(out_data, k)
                      = (IF k \in HandledKeys
                         THEN Str(MANUAL_TRANSLATIONS(k, target_locale))
                         ELSE Get(Decide(target_locale).target_data, k))

\* In missing-only mode the override was applied for de and the job of the
\* other key was collected.
C15_Witness ==
    /\ InRun
    /\ args.missing_only
    /\ target_locale = De
    /\ Get(out_data, Key("repeater_daysHoursMinsSecs")) = Str(ManualDe)
    /\ completed = 1
    /\ manual_count = 1

\* translate_locale runs in missing-only mode on an existing target.
InMissingOnlyRun == InRun /\ Decide(target_locale).missing_keys.given

\* The keys the target document has a non-blank text for.
TranslatedKeys(target) ==
    { k \in Range(Keys(target)) :
        Get(target, k).t = "str" /\ ~BlankText(Get(target, k)) }

\* C16 as claimed: in missing-only mode every key with a non-blank text in
\* the target has no job and keeps the target's value in the output
\* document (so no override is applied to it), whatever the other jobs give.
C16_TranslatedKeysUntouched ==
    InMissingOnlyRun
        => \A k \in TranslatedKeys(Decide(target_locale).target_data) :
               /\ k \notin JobKeys
               /\ Has(out_data, k)
               /\ Get(out_data, k) = Get(Decide(target_locale).target_data, k)

\* C16 as amended: the same for every key but the locale tag and the
\* metadata keys; the locale tag is set to the target locale.
C16_TranslatedPlainKeysUntouched ==
    InMissingOnlyRun
        => /\ \A k \in TranslatedKeys(Decide(target_locale).target_data) :
                  k.at = 0
                      => /\ k \notin JobKeys
                         /\ Has(out_data, k)
                         /\ Get(out_data, k)
                                = Get(Decide(target_locale).target_data, k)
           /\ Get(out_data, LocaleKey) = Str(target_locale)

\* The target's older text for a key with an override is still there after
\* the job of the missing key was collected.
C16_Witness ==
    /\ InMissingOnlyRun
    /\ target_locale = Fr
    /\ completed = 1
    /\ HasManual(Key("repeater_daysHoursMinsSecs"), target_locale)
    /\ Has(out_data, Key("repeater_daysHoursMinsSecs"))
    /\ Get(out_data, Key("repeater_daysHoursMinsSecs")) = Str(OutNoIcu)
    /\ Has(out_data, Key("bye"))

\* The step in which translate_locale returns before the executor (line
\* 354), and the one in which it returns after the collecting loop.
EarlyReturn ==
    pcMain = "main" /\ target_locale' # target_locale /\ pcMain' # "collect"

LateReturn == pcMain = "collect" /\ pcMain' \in { "main", "exit" }

\* translate_locale returned -1: the write failed.
ReturnedMinusOne ==
    IF args.l10n_dir THEN total_translated' = total_translated - 1
                     ELSE exit_code' = 1

\* The file of the locale is written once in this step, with out_data.
WritesOutData ==
    /\ writes' = [writes EXCEPT ![target_locale'] = @ + 1]
    /\ disk' = [disk EXCEPT ![target_locale'] = File(out_data')]

\* C17: a run of translate_locale that is no dry run writes the merged
\* document once, when it returns, however many items were left for the
\* scheduler (a write that fails apart); a dry run writes nothing.
C17_WritesOnce ==
    [][(EarlyReturn \/ LateReturn)
           => IF args.dry_run
              THEN writes' = writes /\ disk' = disk
              ELSE ReturnedMinusOne \/ WritesOutData]_vars

\* C18: in a run over a directory, translate_locale's return after the
\* collecting loop leaves the locale's counters as they are, adds the
\* locale's translated strings to the run's total and goes on to the next
\* locale, whether the write succeeded or failed.
C18_WriteFailureChangesNothingElse ==
    [][(LateReturn /\ args.l10n_dir)
           => /\ translated_ok' = translated_ok
              /\ fallback_used' = fallback_used
              /\ failures' = failures
              /\ completed' = completed
              /\ pcMain' = "main"
              /\ li' = li + 1
              /\ total_translated' = total_translated + translated_ok]_vars

\* The keys of the source that are never to be translated: the locale tag,
\* the metadata keys, the skip set, and the entries that are no non-blank
\* string.
ExcludedKeys ==
    { k \in Range(Keys(source_data)) :
        \/ k = LocaleKey
        \/ k.at >= 1
        \/ k \in SKIP_KEYS
        \/ Get(source_data, k).t # "str"
        \/ BlankText(Get(source_data, k)) }

\* C19: no job, so no backend request, exists for an excluded key, and a
\* skip-set key of the output document has the value the source or the
\* target had for it, never a backend response.
C19_ExcludedKeysNeverTranslated ==
    /\ JobKeys \cap ExcludedKeys = {}
    /\ JobKeys \subseteq Range(Keys(source_data))
    /\ InRun
           => \A k \in SKIP_KEYS :
                  Has(out_data, k)
                      => \/ /\ Has(source_data, k)
                            /\ Get(out_data, k) = Get(source_data, k)
                         \/ /\ Has(Decide(target_locale).target_data, k)
                            /\ Get(out_data, k)
                                   = Get(Decide(target_locale).target_data, k)

\* The source has a skip-set key, a blank text, a number and metadata; the
\* output document has the skip-set key and the one job was collected.
C19_Witness ==
    /\ InRun
    /\ source_data = SrcApp
    /\ Has(out_data, Key("appTitle"))
    /\ total = 1
    /\ completed = 1
    /\ translated_ok = 2

\* The keys that received a new value in the run so far: the handled keys
\* with an override, and the keys of the jobs whose outcome was collected.
NewlyValuedKeys ==
    (OverrideKeys(target_locale) \cap HandledKeys)
        \cup { jobs[j].key : j \in Merged }

\* C20: in every run mode and for every base document, each key that
\* received a new value in the run and has a metadata entry in the source
\* has that source metadata entry in the output document.
C20_MetadataCopiedForward ==
    InRun
        => \A k \in NewlyValuedKeys :
               Has(source_data, MetaKey(k))
                   => /\ Has(out_data, MetaKey(k))
                      /\ Get(out_data, MetaKey(k))
                             = Get(source_data, MetaKey(k))

-----------------------------------------------------------------------------
(* The backoff schedule of translate_one: runs of two jobs with retry      *)
(* budgets that leave room for more than one sleep.                        *)

MaxSleeps == 2

BackoffInit ==
    \E retries \in (-1)..MaxSleeps, concurrency \in 1..MaxConcurrency,
       fallback_model \in BOOLEAN :
        Start(Run(FALSE, TRUE, SrcGreeting, << Fr >>, Files(File(TgtTag(Fr)))),
              retries, concurrency, fallback_model, FALSE)

BackoffSpec == BackoffInit /\ [][Next]_vars

\* The sleeps a job has had after failed primary attempts: one of
\* backoff x k after the k-th failure, as long as k <= retries.
Schedule(failed) ==
    LET n == IF failed < args.retries THEN failed ELSE args.retries
    IN  [k \in 1..(IF n > 0 THEN n ELSE 0) |-> Backoff * k]

\* The workers other than those asleep can go on: a request in flight can be
\* answered, a returned outcome can be collected, and a queued job can start
\* when a worker is free.
OthersGoOn ==
    \A j \in DOMAIN jobs :
        jobs[j].pc = "sleep"
            => /\ \A i \in DOMAIN jobs \ { j } :
                      /\ jobs[i].pc = "primary" => ENABLED PrimaryReply(i)
                      /\ jobs[i].pc = "fallback" => ENABLED FallbackReply(i)
                      /\ jobs[i].pc = "sleep" => ENABLED Wake(i)
                      /\ (jobs[i].pc = "done" /\ jobs[i].merged = 0)
                             => ENABLED Collect(i)
               /\ (queue # << >> /\ Cardinality(InFlight) < max_workers)
                      => ENABLED StartJob

\* C21: after the k-th failed primary attempt, k <= retries, by transport
\* error or by validation, a job has slept exactly once for backoff x k
\* before attempt k+1; it sleeps neither after the last primary attempt, nor
\* before the fallback attempt, nor after a success; and a job asleep stops
\* no other worker.
C21_BackoffSchedule ==
    /\ \A j \in DOMAIN jobs :
           /\ jobs[j].slept = Schedule(jobs[j].nPrimaryFailed)
           /\ jobs[j].pc = "sleep"
                  => /\ jobs[j].attempt < args.retries
                     /\ jobs[j].nPrimaryFailed = jobs[j].attempt + 1
           /\ jobs[j].pc = "primary" => Len(jobs[j].slept) = jobs[j].attempt
           /\ jobs[j].pc \in { "fallback", "done" }
                  => Len(jobs[j].slept) = jobs[j].nPrimary - 1
                         \/ jobs[j].nPrimary = 0
    /\ OthersGoOn

\* One job has slept backoff x 1 and backoff x 2 and is asleep for the
\* second time while the other job has returned a translation from its
\* first attempt.
C21_Witness ==
    /\ pcMain = "collect"
    /\ Len(jobs) = 2
    /\ jobs[1].pc = "sleep"
    /\ jobs[1].slept = << Backoff, Backoff * 2 >>
    /\ jobs[2].pc = "done"
    /\ jobs[2].slept = << >>
    /\ jobs[2].result.err = None

-----------------------------------------------------------------------------
(* The run counters under concurrent completion.                           *)

\* The counters account for every collected outcome, once.
CountersAccountForMerged ==
    /\ completed = Cardinality(Merged)
    /\ completed = (translated_ok - manual_count) + Len(failures)
    /\ fallback_used <= translated_ok - manual_count
    /\ completed <= total

\* A step that changes a counter or the output document is a step of the
\* thread that runs main and the collecting loop: it enters translate_locale,
\* or it collects one returned outcome, counts it and stores its text.
OnlyCollectorUpdates ==
    runVars' # runVars
        => \/ pcMain = "main"
           \/ /\ pcMain = "collect"
              /\ \E j \in DOMAIN jobs :
                     /\ jobs[j].pc = "done" /\ jobs[j].merged = 0
                     /\ jobs' = [jobs EXCEPT ![j].merged = 1]
                     /\ completed' = completed + 1
                     /\ out_data'
                            = Put(out_data, jobs[j].key,
                                  Str(jobs[j].result.text))

\* The collecting loop ends with every outcome counted.
EndsComplete ==
    (pcMain = "collect" /\ pcMain' # "collect")
        => /\ pcMain' # "crashed"
           /\ completed = total
           /\ total = Len(jobs)
           /\ fallback_used
                  = Cardinality({ j \in DOMAIN jobs :
                                    jobs[j].result.used_fallback })

\* C22: for every interleaving of worker completions, the counters and the
\* output document are updated only by the collecting thread; after each
\* collected outcome completed = (OK count - override count) + number of
\* failures and fallback_used <= OK count - override count; at the end
\* completed = total and fallback_used is the number of outcomes with
\* used_fallback.
C22_NoLostUpdate ==
    /\ []CountersAccountForMerged
    /\ [][OnlyCollectorUpdates /\ EndsComplete]_vars

\* Two workers; both outcomes were collected, the second job's first: a
\* failure and a fallback success.
C22_Witness ==
    /\ pcMain = "collect"
    /\ args.concurrency = 2
    /\ total = 2
    /\ completed = 2
    /\ Len(failures) = 1
    /\ failures[1][1] = jobs[2].key
    /\ fallback_used = 1
    /\ jobs[1].result.used_fallback
    /\ Keys(out_data)[Len(out_data)] = jobs[1].key

-----------------------------------------------------------------------------
(* The classification of outcomes.                                         *)

\* A primary attempt of job j passed validation.
PrimaryPassed(j) ==
    /\ jobs[j].pc = "done"
    /\ jobs[j].nPrimary > jobs[j].nPrimaryFailed

\* The text of job j's outcome is a reply that passes validation against
\* the source.
ValidatedResponse(j) ==
    /\ jobs[j].result.text \in { Strip(t) : t \in ReplyTexts(jobs[j].text) }
    /\ validate_preserved_tokens(jobs[j].text, jobs[j].result.text)[1]

\* C23: for every retry budget, with and without a fallback, an outcome
\* with no error is the validated response of an attempt that passed, of
\* the fallback backend exactly when used_fallback is true; an outcome of a
\* job none of whose attempts passed is the source text with an error, and
\* is counted as a failure, the others as OK.
C23_SoundClassification ==
    /\ \A j \in Done :
           /\ jobs[j].result.err = None
                  => /\ ValidatedResponse(j)
                     /\ PrimaryPassed(j) \/ FallbackPassed(j)
                     /\ jobs[j].result.used_fallback <=> FallbackPassed(j)
           /\ ~(PrimaryPassed(j) \/ FallbackPassed(j))
                  => /\ jobs[j].result.text = jobs[j].text
                     /\ jobs[j].result.err # None
                     /\ ~jobs[j].result.used_fallback
    /\ translated_ok - manual_count
           = Cardinality({ j \in Merged :
                             PrimaryPassed(j) \/ FallbackPassed(j) })
    /\ Len(failures)
           = Cardinality({ j \in Merged :
                             ~(PrimaryPassed(j) \/ FallbackPassed(j)) })

=============================================================================
